---- MODULE Spec2Model ----
(***************************************************************************)
(* Verification model of CoVA-Web-Object-Detection:                        *)
(*   datasets.py  WebDataset, custom_collate_fn, load_data                 *)
(*   models.py    VAMWOD, GraphAttentionLayer                              *)
(*                                                                         *)
(* Three specifications share the module:                                  *)
(*   SpecData   load_data, then the three DataLoaders producing batches    *)
(*   SpecGAT    GraphAttentionLayer: construction and forward              *)
(*   SpecModel  VAMWOD: construction and forward                           *)
(***************************************************************************)
EXTENDS Integers, Sequences, FiniteSets, TLC

VARIABLES lstate, args, datasets, iter, batch, gat, gout, net, out

dvars == <<lstate, args, datasets, iter, batch>>
gvars == <<gat, gout>>
mvars == <<net, out>>
vars == <<lstate, args, datasets, iter, batch, gat, gout, net, out>>

(***************************************************************************)
(* Bounds of the model.                                                    *)
(***************************************************************************)
MaxIds == 2
MaxBg == 2
MaxCap == 2
MaxBatch == 2

(***************************************************************************)
(* Generic helpers.                                                        *)
(***************************************************************************)
RECURSIVE SumSeq(_)
SumSeq(s) == IF s = <<>> THEN 0 ELSE Head(s) + SumSeq(Tail(s))

RECURSIVE ConcatAll(_)
ConcatAll(ss) == IF ss = <<>> THEN <<>> ELSE Head(ss) \o ConcatAll(Tail(ss))

Take(s, n) == IF n >= Len(s) THEN s ELSE SubSeq(s, 1, n)

Perms(n) == {p \in [1..n -> 1..n] : \A a, b \in 1..n : p[a] = p[b] => a = b}

\* the increasing list of the elements of a finite set of integers
RECURSIVE SortedSeq(_)
SortedSeq(S) ==
    IF S = {} THEN <<>>
    ELSE LET m == CHOOSE x \in S : \A y \in S : x <= y
         IN <<m>> \o SortedSeq(S \ {m})

(***************************************************************************)
(* datasets.py                                                             *)
(***************************************************************************)
Splits == {"train", "val", "test"}
ImgIds == 1..MaxIds
IdLists == {SortedSeq(S) : S \in SUBSET ImgIds}
Caps == {-1} \cup (0..MaxCap)

Range(s) == {s[j] : j \in 1..Len(s)}

\* np.intersect1d(a, b): the sorted unique values that are in both lists
intersect1d(a, b) == SortedSeq(Range(a) \cap Range(b))

\* The contents of <img_id>.pkl: three ground-truth boxes and A other boxes,
\* each stored as [x, y, w, h]. The A other boxes are pairwise different, so
\* that a reordering of them is visible.
pkl_load(img_id, A) ==
    [gt_boxes    |-> <<<<img_id, 0, 1, 1>>, <<img_id, 1, 2, 1>>, <<img_id, 2, 1, 2>>>>,
     other_boxes |-> [j \in 1..A |-> <<j, 3, j, 1>>]]

\* bboxes[:,2:] += bboxes[:,:2] on one row
ToCorners(b) == <<b[1], b[2], b[3] + b[1], b[4] + b[2]>>

\* WebDataset(root, img_ids, max_bg_boxes)
WebDataset(img_ids, max_bg_boxes) ==
    [ids |-> img_ids, max_bg_boxes |-> max_bg_boxes]

\* KeptBg without the max_bg_boxes > 0 test: bg_boxes[:max_bg_boxes] always
KeptBg_unguarded(max_bg_boxes, other_boxes, p) ==
    LET shuffled == [j \in 1..Len(other_boxes) |-> other_boxes[p[j]]]
        n == IF max_bg_boxes < 0
             THEN (IF Len(other_boxes) + max_bg_boxes < 0 THEN 0
                   ELSE Len(other_boxes) + max_bg_boxes)
             ELSE max_bg_boxes
    IN Take(shuffled, n)

\* the background boxes __getitem__ keeps: np.random.shuffle (the permutation
\* p) and the truncation happen only when max_bg_boxes > 0
KeptBg(max_bg_boxes, other_boxes, p) ==
    IF max_bg_boxes > 0
    THEN Take([j \in 1..Len(other_boxes) |-> other_boxes[p[j]]], max_bg_boxes)
    ELSE other_boxes

\* the label tensor of a sample with the background boxes bg_boxes
MakeLabels(bg_boxes) == <<1, 2, 3>> \o [j \in 1..Len(bg_boxes) |-> 0]

\* getitem with the labels built from the file's boxes, before the cap
getitem_labels_before_cap(ds, split, index, A, p) ==
    LET img_id      == ds.ids[index]
        input_boxes == pkl_load(img_id, A)
        bg_boxes    == KeptBg(ds.max_bg_boxes, input_boxes.other_boxes, p)
        cat         == input_boxes.gt_boxes \o bg_boxes
    IN [split  |-> split,
        img    |-> img_id,
        gt     |-> input_boxes.gt_boxes,
        avail  |-> input_boxes.other_boxes,
        bboxes |-> [j \in 1..Len(cat) |-> ToCorners(cat[j])],
        labels |-> MakeLabels(input_boxes.other_boxes)]

\* WebDataset.__getitem__(index); A is the number of other boxes in the file
\* and p the permutation np.random.shuffle draws. avail records the file's
\* other boxes as read, for the properties.
getitem(ds, split, index, A, p) ==
    LET img_id      == ds.ids[index]
        input_boxes == pkl_load(img_id, A)
        bg_boxes    == KeptBg(ds.max_bg_boxes, input_boxes.other_boxes, p)
        cat         == input_boxes.gt_boxes \o bg_boxes
    IN [split  |-> split,
        img    |-> img_id,
        gt     |-> input_boxes.gt_boxes,
        avail  |-> input_boxes.other_boxes,
        bboxes |-> [j \in 1..Len(cat) |-> ToCorners(cat[j])],
        labels |-> MakeLabels(bg_boxes)]

\* one sample's rows with the batch index i put in front (lines 92-93)
WithBatchIndex(i, bbox) == [j \in 1..Len(bbox) |-> <<i>> \o bbox[j]]

\* the loop of custom_collate_fn: enumerate(bboxes) from i
RECURSIVE CollateBoxes(_, _)
CollateBoxes(i, samples) ==
    IF samples = <<>> THEN <<>>
    ELSE WithBatchIndex(i, Head(samples).bboxes) \o CollateBoxes(i + 1, Tail(samples))

\* custom_collate_fn with the batch index counted from 1
custom_collate_fn_from_one(samples) ==
    [images |-> [j \in 1..Len(samples) |-> samples[j].img],
     bboxes |-> CollateBoxes(1, samples),
     labels |-> ConcatAll([j \in 1..Len(samples) |-> samples[j].labels])]

\* custom_collate_fn(batch); an image tensor is represented by its image id
custom_collate_fn(samples) ==
    [images |-> [j \in 1..Len(samples) |-> samples[j].img],
     bboxes |-> CollateBoxes(0, samples),
     labels |-> ConcatAll([j \in 1..Len(samples) |-> samples[j].labels])]

\* load_data without its third assert (train against test)
SplitsDisjoint_two_asserts(train_ids, val_ids, test_ids) ==
    /\ Len(intersect1d(train_ids, val_ids)) = 0
    /\ Len(intersect1d(val_ids, test_ids)) = 0

\* the three asserts of load_data
SplitsDisjoint(train_ids, val_ids, test_ids) ==
    /\ Len(intersect1d(train_ids, val_ids)) = 0
    /\ Len(intersect1d(val_ids, test_ids)) = 0
    /\ Len(intersect1d(train_ids, test_ids)) = 0

\* load_data handing max_bg_boxes to the val dataset too
MakeDatasets_val_capped(a) ==
    [s \in Splits |->
        IF s = "train" THEN WebDataset(a.train_img_ids, a.max_bg_boxes)
        ELSE IF s = "val" THEN WebDataset(a.val_img_ids, a.max_bg_boxes)
        ELSE WebDataset(a.test_img_ids, -1)]

\* the datasets and loaders load_data builds once the asserts have passed
MakeDatasets(a) ==
    [s \in Splits |->
        IF s = "train" THEN WebDataset(a.train_img_ids, a.max_bg_boxes)
        ELSE IF s = "val" THEN WebDataset(a.val_img_ids, -1)
        ELSE WebDataset(a.test_img_ids, -1)]

LoaderBatchSize(s) == IF s = "train" THEN args.batch_size ELSE 1

NoArgs == [train_img_ids |-> <<>>, val_img_ids |-> <<>>, test_img_ids |-> <<>>,
           batch_size |-> 0, max_bg_boxes |-> -1]
NoIter == [split |-> "none", seen |-> {}]
NoBatch == [samples |-> <<>>, images |-> <<>>, bboxes |-> <<>>, labels |-> <<>>]

\* nothing loaded, no layer and no model built yet
Init ==
    /\ lstate = "start"
    /\ args = NoArgs
    /\ datasets = <<>>
    /\ iter = NoIter
    /\ batch = NoBatch
    /\ gat = <<>>
    /\ gout = <<>>
    /\ net = <<>>
    /\ out = <<>>

\* load_data(data_dir, train_img_ids, val_img_ids, test_img_ids, batch_size,
\*           num_workers, max_bg_boxes)
load_data ==
    /\ lstate = "start"
    /\ \E tr \in IdLists, va \in IdLists, te \in IdLists,
          bs \in 1..MaxBatch, cap \in Caps :
         /\ args' = [train_img_ids |-> tr, val_img_ids |-> va, test_img_ids |-> te,
                     batch_size |-> bs, max_bg_boxes |-> cap]
         /\ IF SplitsDisjoint(tr, va, te)
            THEN /\ lstate' = "loaded"
                 /\ datasets' = MakeDatasets(args')
            ELSE /\ lstate' = "failed"    \* AssertionError
                 /\ datasets' = datasets
    /\ UNCHANGED <<iter, batch>>

\* iter(loader) on one of the three returned loaders
StartEpoch ==
    /\ lstate = "loaded"
    /\ iter.split = "none"
    /\ \E s \in Splits : iter' = [split |-> s, seen |-> {}]
    /\ UNCHANGED <<lstate, args, datasets, batch>>

\* the index lists the loader's sampler can hand out next: batch_size indices
\* (fewer at the end of the epoch, drop_last=False), in random order for the
\* train loader (shuffle=True) and in dataset order for val and test
NextIndices(s) ==
    LET n    == Len(datasets[s].ids)
        left == (1..n) \ iter.seen
        k    == IF Cardinality(left) < LoaderBatchSize(s)
                THEN Cardinality(left) ELSE LoaderBatchSize(s)
    IN IF s = "train"
       THEN {q \in [1..k -> left] : \A a, b \in 1..k : q[a] = q[b] => a = b}
       ELSE {Take(SortedSeq(left), k)}

\* the samples __getitem__ can return for index idx of split s
SamplesOf(s, idx) ==
    {getitem(datasets[s], s, idx, A, p) : <<A, p>> \in
        UNION {{<<A, p>> : p \in Perms(A)} : A \in 0..MaxBg}}

\* next(iterator): fetch the next indices, collate them into a batch
NextBatch ==
    /\ lstate = "loaded"
    /\ iter.split # "none"
    /\ LET s == iter.split IN
       /\ iter.seen # 1..Len(datasets[s].ids)
       /\ \E idxs \in NextIndices(s) :
          \E samples \in {f \in [1..Len(idxs) -> UNION {SamplesOf(s, i) : i \in Range(idxs)}] :
                            \A j \in 1..Len(idxs) : f[j] \in SamplesOf(s, idxs[j])} :
             /\ batch' = [samples |-> samples] @@ custom_collate_fn(samples)
             /\ iter' = [iter EXCEPT !.seen = @ \cup Range(idxs)]
    /\ UNCHANGED <<lstate, args, datasets>>

\* StopIteration: the epoch is over, the loop and its batch variable end
EndEpoch ==
    /\ lstate = "loaded"
    /\ iter.split # "none"
    /\ iter.seen = 1..Len(datasets[iter.split].ids)
    /\ iter' = NoIter
    /\ batch' = NoBatch
    /\ UNCHANGED <<lstate, args, datasets>>

DataNext ==
    \/ load_data /\ UNCHANGED <<gvars, mvars>>
    \/ StartEpoch /\ UNCHANGED <<gvars, mvars>>
    \/ NextBatch /\ UNCHANGED <<gvars, mvars>>
    \/ EndEpoch /\ UNCHANGED <<gvars, mvars>>

(***************************************************************************)
(* Properties of the data pipeline (SpecData).                             *)
(***************************************************************************)
Corners(boxes) == [j \in 1..Len(boxes) |-> ToCorners(boxes[j])]
BgOf(s) == SubSeq(s.bboxes, 4, Len(s.bboxes))
CapOf(s) == datasets[s.split].max_bg_boxes
Fetched == Range(batch.samples)

\* the rows of the flat box sequence owned by sample i, without column 0
RowsOf(i) ==
    LET own == SelectSeq(batch.bboxes, LAMBDA r : r[1] = i)
    IN [j \in 1..Len(own) |-> Tail(own[j])]

\* the flat labels at the positions of the rows owned by sample i
LabelsOf(i) ==
    LET zipped == [p \in 1..Len(batch.bboxes) |-> <<batch.bboxes[p][1], batch.labels[p]>>]
        own    == SelectSeq(zipped, LAMBDA z : z[1] = i)
    IN [j \in 1..Len(own) |-> own[j][2]]

\* C1: the flat box sequence custom_collate_fn returns is the concatenation,
\* in sample order, of every sample's boxes in their order, each row prefixed
\* with its owning sample index in [0,N): the row count is the sum of the
\* per-sample counts, splitting by column 0 gives back every sample's box
\* list, and the flat labels are the per-sample labels in the same order.
C1_CollateConcat ==
    LET N == Len(batch.samples) IN
    /\ Len(batch.bboxes) = SumSeq([j \in 1..N |-> Len(batch.samples[j].bboxes)])
    /\ Len(batch.labels) = Len(batch.bboxes)
    /\ \A p \in 1..Len(batch.bboxes) : batch.bboxes[p][1] \in 0..(N - 1)
    /\ \A p, q \in 1..Len(batch.bboxes) :
          p < q => batch.bboxes[p][1] <= batch.bboxes[q][1]
    /\ \A i \in 0..(N - 1) :
          /\ RowsOf(i) = batch.samples[i + 1].bboxes
          /\ LabelsOf(i) = batch.samples[i + 1].labels

\* a batch of two samples with different box counts has been collated
C1_Witness ==
    /\ Len(batch.samples) = 2
    /\ Len(batch.samples[1].bboxes) > Len(batch.samples[2].bboxes)
    /\ Len(batch.bboxes) = Len(batch.samples[1].bboxes) + Len(batch.samples[2].bboxes)

\* C4: with cap k and A available background boxes, a sample has exactly k
\* background boxes if k > 0 and A >= k, keeps all A of them if k = -1 or
\* A < k, and always starts with the three ground-truth boxes.
C4_BackgroundCap ==
    \A s \in Fetched :
        LET k == CapOf(s)
            A == Len(s.avail)
        IN /\ (k > 0 /\ A >= k) =>
                 /\ Len(BgOf(s)) = k
                 /\ Range(BgOf(s)) \subseteq Range(Corners(s.avail))
                 /\ Cardinality(Range(BgOf(s))) = k
           /\ (k = -1 \/ A < k) =>
                 /\ Len(BgOf(s)) = A
                 /\ Range(BgOf(s)) = Range(Corners(s.avail))
           /\ Len(s.bboxes) >= 3
           /\ SubSeq(s.bboxes, 1, 3) = Corners(s.gt)

\* a train sample whose background boxes were cut down to the cap
C4_Witness ==
    \E s \in Fetched :
        /\ CapOf(s) > 0
        /\ Len(s.avail) > CapOf(s)
        /\ Len(BgOf(s)) = CapOf(s)

\* the background count after the cap, as the spec states it
PostCap(k, A) == IF k > 0 /\ A > k THEN k ELSE A

\* C5: every sample has the labels 1, 2 and 3 exactly once (on its three
\* ground-truth boxes), label 0 on every other box, 3 + the post-cap
\* background count boxes, and as many labels as boxes.
C5_LabelCounts ==
    \A s \in Fetched :
        /\ \A l \in 1..3 : Cardinality({p \in 1..Len(s.labels) : s.labels[p] = l}) = 1
        /\ \A p \in 1..Len(s.labels) : s.labels[p] \in 0..3
        /\ \A p \in 1..Len(s.labels) : s.labels[p] = 0 <=> p > 3
        /\ Len(s.bboxes) = 3 + PostCap(CapOf(s), Len(s.avail))
        /\ Len(s.labels) = Len(s.bboxes)

\* a sample whose background boxes were subsampled, with its labels
C5_Witness ==
    \E s \in Fetched :
        /\ CapOf(s) > 0
        /\ Len(s.avail) > CapOf(s)
        /\ Len(s.labels) = 3 + CapOf(s)

\* an identifier that is in more than one of the three id lists
SplitOverlap ==
    \E id \in ImgIds :
        Cardinality({l \in {"train_img_ids", "val_img_ids", "test_img_ids"} :
                        id \in Range(args[l])}) > 1

\* C6: if an identifier is in more than one of the three id lists, load_data
\* fails before any dataset or loader exists and no batch is ever produced;
\* if the lists are pairwise disjoint it returns the three loaders.
C6_OverlapRejected ==
    lstate # "start" =>
        /\ SplitOverlap =>
              /\ lstate = "failed"
              /\ DOMAIN datasets = {}
              /\ iter = NoIter
              /\ batch = NoBatch
        /\ ~SplitOverlap =>
              /\ lstate = "loaded"
              /\ DOMAIN datasets = Splits

\* load_data failed on an identifier shared by the train and test lists only
C6_Witness ==
    /\ lstate = "failed"
    /\ Range(args.train_img_ids) \cap Range(args.test_img_ids) # {}
    /\ Range(args.train_img_ids) \cap Range(args.val_img_ids) = {}
    /\ Range(args.val_img_ids) \cap Range(args.test_img_ids) = {}

\* C7: whatever max_bg_boxes load_data is given, every val and test sample
\* keeps all its available background boxes (in the file's order); only
\* train samples are subsampled.
C7_EvalSplitsUncapped ==
    /\ lstate = "loaded" =>
          /\ datasets["val"].max_bg_boxes = -1
          /\ datasets["test"].max_bg_boxes = -1
    /\ \A s \in Fetched :
          /\ s.split # "train" => BgOf(s) = Corners(s.avail)
          /\ Len(BgOf(s)) < Len(s.avail) => s.split = "train"

\* a val sample with more background boxes than the positive cap given to
\* load_data, all of them kept
C7_Witness ==
    \E s \in Fetched :
        /\ s.split = "val"
        /\ args.max_bg_boxes > 0
        /\ Len(s.avail) > args.max_bg_boxes
        /\ Len(BgOf(s)) = Len(s.avail)

(***************************************************************************)
(* models.py: GraphAttentionLayer                                          *)
(*                                                                         *)
(* Floating point is modelled in fixed point:                              *)
(*  - a feature or a projected feature is an integer;                      *)
(*  - an attention score is a record [big, small] standing for the number  *)
(*    big * 10^15 + small with |small| far below 10^15, so that the mask   *)
(*    constant -9e15 and ordinary scores live in one ordered domain;       *)
(*  - activated scores are counted in units of the LeakyReLU slope         *)
(*    alpha = 1/AlphaDen, which keeps alpha * x an integer;                *)
(*  - exp(x - max) is 1 at 0, strictly increasing, and rounds to 0 once    *)
(*    x - max is below -ExpRange units (float underflow); it is kept as    *)
(*    the integer numerator 2^(ExpRange + (x - max));                      *)
(*  - a softmax weight is the fraction num / den of such numerators.       *)
(***************************************************************************)
MaxN == 2
MaxContext == 2
MaxDim == 1
MaxFeat == 2
ExpRange == 3

AlphaDen == 5
MinusInfMantissa == 9

Dot(a, b) == SumSeq([j \in 1..Len(a) |-> a[j] * b[j]])

\* nn.Linear(in, out, bias=False) applied to the vector x
LinearNoBias(W, x) == [h \in 1..Len(W) |-> Dot(W[h], x)]

\* table[idx] with Python's indexing of a table of Len(table) rows:
\* 0-based, a negative idx counts from the end
InPyRange(table, idx) == -Len(table) <= idx /\ idx < Len(table)
PyIndex(table, idx) == IF idx < 0 THEN table[Len(table) + idx + 1] ELSE table[idx + 1]

Score(b, s) == [big |-> b, small |-> s]
ScoreLess(a, b) == a.big < b.big \/ (a.big = b.big /\ a.small < b.small)

\* nn.LeakyReLU(alpha) on a score, the result in units of alpha
leakyrelu(x) ==
    IF ScoreLess(x, Score(0, 0)) THEN x
    ELSE Score(AlphaDen * x.big, AlphaDen * x.small)

\* one entry of minus_inf = -9e15 * ones_like(attention_wts), in units of alpha
minus_inf == Score(-(MinusInfMantissa * AlphaDen), 0)

\* the attention scores left unmasked
MaskScores_none(scores, ctx) == scores

\* torch.where(context_indices >= 0, attention_wts, minus_inf) on one row
MaskScores(scores, ctx) ==
    [k \in 1..Len(ctx) |-> IF ctx[k] >= 0 THEN scores[k] ELSE minus_inf]

RowMax(scores) ==
    CHOOSE m \in Range(scores) : \A x \in Range(scores) : ~ScoreLess(m, x)

\* the numerator of exp(x - m) for x <= m
ExpNum(x, m) ==
    IF x.big < m.big \/ x.small - m.small < -ExpRange THEN 0
    ELSE 2 ^ (ExpRange + x.small - m.small)

\* torch.softmax(attention_wts, dim=1) on one row: numerators and denominator
softmax(scores) ==
    LET num == [k \in 1..Len(scores) |-> ExpNum(scores[k], RowMax(scores))]
    IN [num |-> num, den |-> SumSeq(num)]

\* GraphAttentionLayer(in_features, hidden_dim): W_i and W_j have no bias,
\* attention_layer has the weights att_w and the bias att_b
GraphAttentionLayer(in_features, hidden_dim, wi, wj, aw, ab) ==
    [in_features |-> in_features,
     hidden_dim  |-> hidden_dim,
     W_i   |-> [h \in 1..hidden_dim |-> [f \in 1..in_features |-> wi]],
     W_j   |-> [h \in 1..hidden_dim |-> [f \in 1..in_features |-> wj]],
     att_w |-> [h \in 1..(2 * hidden_dim) |-> aw],
     att_b |-> ab]

\* W_j built with a bias (nn.Linear's default), here of 1
ApplyW_j_bias(layer, x) ==
    [h \in 1..Len(layer.W_j) |-> Dot(layer.W_j[h], x) + 1]

\* self.W_j(h_j) on one gathered row
ApplyW_j(layer, x) == LinearNoBias(layer.W_j, x)

\* self.attention_layer(torch.cat((Wh_i, Wh_j))) for one (box, slot) pair
attention_layer(layer, Wh_i, Wh_j) ==
    Score(layer.att_b.big, Dot(layer.att_w, Wh_i \o Wh_j) + layer.att_b.small)

\* h_i_padded = torch.cat((h_i, zero_feat), dim=0)
PadZeroRow(h_i, width) == h_i \o <<[f \in 1..width |-> 0]>>

\* GraphAttentionLayer.forward(h_i, context_indices)
gat_forward(layer, h_i, context_indices) ==
    LET N          == Len(context_indices)
        n_context  == Len(context_indices[1])
        h_i_padded == PadZeroRow(h_i, layer.in_features)
        ok         == \A i \in 1..N : \A k \in 1..n_context :
                         InPyRange(h_i_padded, context_indices[i][k])
    IN IF ~ok THEN [status |-> "IndexError"]
       ELSE
       LET h_j  == [i \in 1..N |-> [k \in 1..n_context |->
                       PyIndex(h_i_padded, context_indices[i][k])]]
           Wh_i == [i \in 1..N |-> LinearNoBias(layer.W_i, h_i[i])]
           Wh_j == [i \in 1..N |-> [k \in 1..n_context |-> ApplyW_j(layer, h_j[i][k])]]
           e    == [i \in 1..N |-> [k \in 1..n_context |->
                       leakyrelu(attention_layer(layer, Wh_i[i], Wh_j[i][k]))]]
           masked == [i \in 1..N |-> MaskScores(e[i], context_indices[i])]
           wts  == [i \in 1..N |-> softmax(masked[i])]
           h_prime == [i \in 1..N |->
                         [num |-> [h \in 1..layer.hidden_dim |->
                                     SumSeq([k \in 1..n_context |->
                                               wts[i].num[k] * Wh_j[i][k][h]])],
                          den |-> wts[i].den]]
       IN [status |-> "ok", h_j |-> h_j, Wh_j |-> Wh_j, scores |-> masked,
           attention_wts |-> wts, h_prime |-> h_prime]

Dims == 1..MaxDim
WeightVals == {-1, 1}
BiasVals == {Score(0, 0), Score(-(MinusInfMantissa * AlphaDen), 0)}

\* own-feature tables [N, width]: every row non-zero, the rows different
FeatTables(N, width) ==
    {[i \in 1..N |-> [f \in 1..width |-> base + i - 1]] : base \in 1..MaxFeat}

\* context-index tables [N, n_context] as the context builder makes them:
\* every slot is -1 or the 0-based index of a box
CtxTables(N, n_context) ==
    {[i \in 1..N |-> [k \in 1..n_context |->
          IF k \in M[i] THEN (i - 1 + sh + k) % N ELSE -1]] :
       M \in [1..N -> SUBSET (1..n_context)], sh \in 0..(N - 1)}

\* GraphAttentionLayer.__init__ with some initial parameter values
GatConstruct ==
    /\ gat = <<>>
    /\ \E inf \in Dims, hid \in Dims, wj \in WeightVals, ab \in BiasVals :
          gat' = GraphAttentionLayer(inf, hid, 1, wj, 1, ab)
    /\ UNCHANGED gout

\* one call of GraphAttentionLayer.forward
GatForward ==
    /\ gat # <<>>
    /\ gout = <<>>
    /\ \E N \in 1..MaxN, n_context \in 1..MaxContext :
       \E h_i \in FeatTables(N, gat.in_features), C \in CtxTables(N, n_context) :
          gout' = [h_i |-> h_i, ctx |-> C] @@ gat_forward(gat, h_i, C)
    /\ UNCHANGED gat

GatNext ==
    \/ GatConstruct /\ UNCHANGED <<dvars, mvars>>
    \/ GatForward /\ UNCHANGED <<dvars, mvars>>

(***************************************************************************)
(* models.py: VAMWOD                                                       *)
(***************************************************************************)
RoiSizes == {<<1, 1>>, <<1, 2>>}
ClassCounts == {4}

\* VAMWOD.__init__; channels is _convnet_output_size[1] of the truncated
\* backbone, wj and ab the initial parameters of the attention layer
VAMWOD(roi_output_size, channels, n_classes, use_context, use_attention, hidden_dim, use_bbox_feat, bbox_hidden_dim, n_additional_feat, wj, ab) ==
    LET n_visual_feat == channels * roi_output_size[1] * roi_output_size[2]
        n_bbox_feat   == IF use_bbox_feat THEN bbox_hidden_dim ELSE 0
        n_feat        == n_visual_feat + n_bbox_feat + n_additional_feat
        n_total_feat  == n_feat + hidden_dim
    IN [n_classes         |-> n_classes,
        use_context       |-> use_context,
        use_attention     |-> use_attention,
        use_bbox_feat     |-> use_bbox_feat,
        hidden_dim        |-> hidden_dim,
        n_additional_feat |-> n_additional_feat,
        n_visual_feat     |-> n_visual_feat,
        n_bbox_feat       |-> n_bbox_feat,
        n_feat            |-> n_feat,
        has_gat           |-> use_context /\ use_attention,
        gat               |-> IF use_context /\ use_attention
                              THEN GraphAttentionLayer(n_feat, hidden_dim, 1, wj, 1, ab)
                              ELSE <<>>,
        n_total_feat      |-> n_total_feat,
        decoder_in        |-> n_total_feat]

\* h_j.sum(dim=1) / (context_indices != -1).sum(dim=1) on one row: a float
\* division, 0/0 giving NaN
MeanRow(h_j_row, ctx, width) ==
    LET total == [f \in 1..width |-> SumSeq([k \in 1..Len(ctx) |-> h_j_row[k][f]])]
        cnt   == Cardinality({k \in 1..Len(ctx) : ctx[k] # -1})
    IN [num |-> total, den |-> cnt, nan |-> cnt = 0]

\* the non-attention branch of VAMWOD.forward (lines 119-123)
mean_context(m, own_features, context_indices) ==
    LET N         == Len(context_indices)
        n_context == Len(context_indices[1])
        padded    == PadZeroRow(own_features, m.n_feat)
        ok        == \A i \in 1..N : \A k \in 1..n_context :
                        InPyRange(padded, context_indices[i][k])
    IN IF ~ok THEN [status |-> "IndexError"]
       ELSE [status |-> "ok",
             rep |-> [i \in 1..N |->
                        MeanRow([k \in 1..n_context |->
                                    PyIndex(padded, context_indices[i][k])],
                                context_indices[i], m.n_feat)]]

\* VAMWOD.forward(images, bboxes, additional_feats, context_indices): owner
\* is column 0 of bboxes; own_features stands for the concatenation of the
\* pooled visual features, the encoded box features and the additional
\* features, of width n_feat; the decoder is a Linear layer that refuses an
\* input whose width is not its declared input width
forward(m, owner, own_features, context_indices) ==
    LET N   == Len(owner)
        ctx == IF m.use_context
               THEN IF m.use_attention
                    THEN LET g == gat_forward(m.gat, own_features, context_indices)
                         IN IF g.status = "ok"
                            THEN [status |-> "ok", width |-> m.hidden_dim,
                                  rep |-> g.h_prime, attention_wts |-> g.attention_wts]
                            ELSE [status |-> g.status]
                    ELSE LET a == mean_context(m, own_features, context_indices)
                         IN IF a.status = "ok"
                            THEN [status |-> "ok", width |-> m.n_feat, rep |-> a.rep]
                            ELSE [status |-> a.status]
               ELSE [status |-> "ok", width |-> 0, rep |-> [i \in 1..N |-> <<>>]]
    IN IF ctx.status # "ok" THEN [status |-> ctx.status, output |-> <<>>]
       ELSE LET combined_width == m.n_feat + ctx.width
            IN [context_representation |-> ctx.rep,
                combined_width |-> combined_width] @@
               (IF combined_width = m.decoder_in
                THEN [status |-> "ok", output |-> <<N, m.n_classes>>]
                ELSE [status |-> "RuntimeError", output |-> <<>>])

\* column 0 of a flat box tensor as custom_collate_fn builds it
Owners(N) ==
    {o \in [1..N -> 0..(N - 1)] :
        /\ o[1] = 0
        /\ \A j \in 1..(N - 1) : o[j + 1] \in {o[j], o[j] + 1}}

\* context tables with one entry that is no box index and not -1
BadTables(N, n_context) ==
    {[C EXCEPT ![i][k] = b] :
        C \in CtxTables(N, n_context), i \in 1..N, k \in 1..n_context,
        b \in {-2, N, N + 1}}

\* VAMWOD(...)
Construct ==
    /\ net = <<>>
    /\ \E roi \in RoiSizes, channels \in Dims, n_classes \in ClassCounts,
          use_context \in BOOLEAN, use_attention \in BOOLEAN, hidden_dim \in Dims,
          use_bbox_feat \in BOOLEAN, bbox_hidden_dim \in Dims,
          n_additional_feat \in 0..MaxDim,
          wj \in WeightVals, ab \in BiasVals :
          net' = VAMWOD(roi, channels, n_classes, use_context, use_attention,
                        hidden_dim, use_bbox_feat, bbox_hidden_dim,
                        n_additional_feat, wj, ab)
    /\ UNCHANGED out

\* model(images, bboxes, additional_feats, context_indices)
Forward ==
    /\ net # <<>>
    /\ out = <<>>
    /\ \E N \in 1..MaxN, n_context \in 1..MaxContext :
       \E owner \in Owners(N), own_features \in FeatTables(N, net.n_feat),
          C \in CtxTables(N, n_context) \cup BadTables(N, n_context) :
          out' = [owner |-> owner, own_features |-> own_features, ctx |-> C] @@
                 forward(net, owner, own_features, C)
    /\ UNCHANGED net

ModelNext ==
    \/ Construct /\ UNCHANGED <<dvars, gvars>>
    \/ Forward /\ UNCHANGED <<dvars, gvars>>

(***************************************************************************)
(* Properties of GraphAttentionLayer (SpecGAT).                            *)
(***************************************************************************)
HasValid(row) == \E k \in 1..Len(row) : row[k] >= 0
SumsToOne(w) == w.den > 0 /\ SumSeq(w.num) = w.den
SentinelsZero(w, row) == \A k \in 1..Len(row) : row[k] = -1 => w.num[k] = 0
IsZeroVec(v) == \A f \in 1..Len(v) : v[f] = 0

\* C3 as stated: for every box with at least one valid slot, whatever the
\* scores of the valid slots, the attention weights sum to 1 and the weight
\* of every sentinel slot is 0.
C3_AnyScores ==
    gout # <<>> =>
        \A i \in 1..Len(gout.ctx) :
            HasValid(gout.ctx[i]) =>
                /\ SumsToOne(gout.attention_wts[i])
                /\ SentinelsZero(gout.attention_wts[i], gout.ctx[i])

\* a valid slot of box i scores above the mask constant by more than the
\* range below which exp rounds to 0
AboveMask(i) ==
    \E k \in 1..Len(gout.ctx[i]) :
        /\ gout.ctx[i][k] >= 0
        /\ \/ gout.scores[i][k].big > minus_inf.big
           \/ /\ gout.scores[i][k].big = minus_inf.big
              /\ gout.scores[i][k].small - minus_inf.small > ExpRange

\* C3 (amended): for every box with at least one valid slot whose activated
\* score lies above the mask constant -9e15 by more than exp's underflow
\* range, the attention weights sum to 1 and every sentinel slot has weight 0.
C3_MaskedSoftmax ==
    gout # <<>> =>
        \A i \in 1..Len(gout.ctx) :
            (HasValid(gout.ctx[i]) /\ AboveMask(i)) =>
                /\ SumsToOne(gout.attention_wts[i])
                /\ SentinelsZero(gout.attention_wts[i], gout.ctx[i])

\* a box with a valid and a sentinel slot, the sentinel slot weighing 0
C3_Witness ==
    /\ gout # <<>>
    /\ \E i \in 1..Len(gout.ctx) :
          /\ AboveMask(i)
          /\ \E k \in 1..Len(gout.ctx[i]) :
                gout.ctx[i][k] = -1 /\ gout.attention_wts[i].num[k] = 0
          /\ \E k \in 1..Len(gout.ctx[i]) :
                gout.ctx[i][k] >= 0 /\ gout.attention_wts[i].num[k] > 0

\* C10: every -1 slot gathers the appended all-zero row, and a box whose
\* slots are all -1 gets uniform attention weights (1/n_context each) and
\* the zero vector as its context representation h'.
C10_AllMaskedRow ==
    gout # <<>> =>
        \A i \in 1..Len(gout.ctx) :
            LET row == gout.ctx[i]
                w   == gout.attention_wts[i]
            IN /\ \A k \in 1..Len(row) :
                     row[k] = -1 =>
                        /\ IsZeroVec(gout.h_j[i][k])
                        /\ gout.h_j[i][k] =
                              PadZeroRow(gout.h_i, gat.in_features)[Len(gout.h_i) + 1]
               /\ ~HasValid(row) =>
                     /\ w.den > 0
                     /\ \A k \in 1..Len(row) : w.num[k] * Len(row) = w.den
                     /\ IsZeroVec(gout.h_prime[i].num)

\* a box with two slots, both -1, next to a box that has a neighbour
C10_Witness ==
    /\ gout # <<>>
    /\ Len(gout.ctx) = 2
    /\ Len(gout.ctx[1]) = 2
    /\ ~HasValid(gout.ctx[1])
    /\ HasValid(gout.ctx[2])
    /\ IsZeroVec(gout.h_prime[1].num)

(***************************************************************************)
(* Properties of VAMWOD (SpecModel).                                       *)
(***************************************************************************)
\* C2: built with use_context=false, the decoder declares an input width
\* equal to n_feat = n_visual_feat + n_bbox_feat + n_additional_feat, which
\* is the width of the combined feature vector forward() gives it.
C2_NoContextWidth ==
    (net # <<>> /\ ~net.use_context) =>
        /\ net.n_feat = net.n_visual_feat + net.n_bbox_feat + net.n_additional_feat
        /\ net.decoder_in = net.n_feat
        /\ out # <<>> => (out.combined_width = net.decoder_in /\ out.status = "ok")

\* an entry of the context table that is neither -1 nor the index of a box
\* of the same image as the referring box
Malformed(ctx, owner) ==
    \E i \in 1..Len(ctx) : \E k \in 1..Len(ctx[i]) :
        LET c == ctx[i][k]
        IN c # -1 /\ (c \notin 0..(Len(ctx) - 1) \/ owner[c + 1] # owner[i])

\* C8: forward rejects (an error, no output) a context table with an entry
\* that is out of range or points to a box of another image.
C8_TableValidated ==
    (out # <<>> /\ Malformed(out.ctx, out.owner)) =>
        (out.status # "ok" /\ out.output = <<>>)

InRange(ctx) ==
    \A i \in 1..Len(ctx) : \A k \in 1..Len(ctx[i]) :
        ctx[i][k] \in {-1} \cup (0..(Len(ctx) - 1))

\* C9: in the mean mode the context representation of a box is the sum of
\* its valid neighbours' own features divided by their number, and for a box
\* without valid neighbours the division is guarded: the result is defined.
C9_MeanGuarded ==
    (out # <<>> /\ net.use_context /\ ~net.use_attention
       /\ out.status = "ok" /\ InRange(out.ctx)) =>
        \A i \in 1..Len(out.ctx) :
            LET row   == out.ctx[i]
                valid == {k \in 1..Len(row) : row[k] >= 0}
                rep   == out.context_representation[i]
            IN /\ valid # {} =>
                     /\ rep.den = Cardinality(valid)
                     /\ \A f \in 1..net.n_feat :
                           rep.num[f] = SumSeq([k \in 1..Len(row) |->
                                           IF k \in valid
                                           THEN out.own_features[row[k] + 1][f] ELSE 0])
               /\ ~rep.nan


SpecData == Init /\ [][DataNext]_vars
SpecGAT == Init /\ [][GatNext]_vars
SpecModel == Init /\ [][ModelNext]_vars
====
